---- MODULE Spec2Model ----
(***************************************************************************)
(* Model of the transaction pipeline of the financial tracker:             *)
(* Transform (categorize_data, process_data, process_data_account,         *)
(* process_data_credit_card, concat_sort_data, filter_data) and the parts  *)
(* of App that drive it (transform_data, display_sidebar), followed by the *)
(* session of the App: the Submit blocks of select_data_source, load_data  *)
(* with its cache, run and the two sidebar callbacks over session_state.   *)
(*                                                                         *)
(* A polars DataFrame is a record [columns, rows]: the set of column names *)
(* and the sequence of rows, each row a function from the column names to  *)
(* values.  A call that raises is the record [error |-> <exception>].      *)
(* Columns hold non-null values.  Strings are TLA+ strings, dates are the  *)
(* integers yyyymmdd (their order is the calendar order), amounts are      *)
(* integers.  TLC does not keep a character outside ASCII intact in a      *)
(* state it writes to its queue on disk, so the strings of the source are  *)
(* written here without their accents: "Transferencia" for                 *)
(* "Transferência", "Debito" for "Débito", "Credito" for "Crédito",        *)
(* "Saida" for "Saída", "Descricao" for "Descrição".                       *)
(***************************************************************************)
EXTENDS Integers, Sequences, FiniteSets, TLC

VARIABLES
    account_data,             \* raw account table handed to transform_data
    credit_card_data,         \* raw credit-card table handed to transform_data
    session_state,            \* streamlit.session_state: a function on the keys it holds
    processed_account,        \* value of process_data_account(account_data)
    processed_credit_card,    \* value of process_data_credit_card(credit_card_data)
    data,                     \* App.data
    filtered_data,            \* App.filtered_data
    sidebar,                  \* arguments of the last filter_data call
    raised,                   \* Raise(exception) if one ended the last script run or handler
    cache_data                \* st.cache_data: the load_data calls whose result is cached

vars == <<account_data, credit_card_data, session_state,
          processed_account, processed_credit_card, data, filtered_data, sidebar, raised,
          cache_data>>

(***************************************************************************)
(* Bounds of the model.                                                    *)
(***************************************************************************)
MaxRows == 3          \* raw rows of the two feeds together in the pipeline specification
MaxFeedRows == 1      \* rows of the feed in the per-feed specification
MaxCategories == 2    \* categories of a keyword mapping
MaxKeywords == 2      \* keywords per category
MaxFilterRows == 2    \* rows of the dataset in the filter specification

(***************************************************************************)
(* Values.                                                                 *)
(***************************************************************************)
None == [none |-> TRUE]
Raise(exception) == [error |-> exception]
IsError(df) == "error" \in DOMAIN df
IsFrame(df) == "rows" \in DOMAIN df
DataFrame(columns, rows) == [columns |-> columns, rows |-> rows]

\* st.session_state["category_keywords_json"], as Transform reads it.
category_keywords_json == session_state["category_keywords_json"]

SeqsUpTo(S, n) == UNION {[1..k -> S] : k \in 0..n}

\* An empty list taken to mean "no filter".
is_in_or_no_filter(value, values) == values = {} \/ value \in values

\* polars Expr.is_in(values)
is_in(value, values) == value \in values

\* polars Expr.alias inside with_columns: add or replace one column of a row.
with_column(row, name, value) ==
    [c \in (DOMAIN row) \cup {name} |-> IF c = name THEN value ELSE row[c]]

\* polars DataFrame.select: the listed columns, ColumnNotFoundError if one is absent.
select(df, columns) ==
    IF IsError(df) THEN df
    ELSE IF ~(columns \subseteq df.columns) THEN Raise("ColumnNotFoundError")
    ELSE DataFrame(columns, [i \in DOMAIN df.rows |-> [c \in columns |-> df.rows[i][c]]])

(***************************************************************************)
(* Strings.                                                                *)
(***************************************************************************)
Char(s, i) == SubSeq(s, i, i)

Lowercase == "abcdefghijklmnopqrstuvwxyz"
Uppercase == "ABCDEFGHIJKLMNOPQRSTUVWXYZ"
Digits == "0123456789"
CharsOf(alphabet) == {Char(alphabet, i) : i \in 1..Len(alphabet)}
IndexIn(c, alphabet) == CHOOSE i \in 1..Len(alphabet) : Char(alphabet, i) = c
LowerToUpper == [c \in CharsOf(Lowercase) |-> Char(Uppercase, IndexIn(c, Lowercase))]
UpperToLower == [c \in CharsOf(Uppercase) |-> Char(Lowercase, IndexIn(c, Uppercase))]
DigitValue == [c \in CharsOf(Digits) |-> IndexIn(c, Digits) - 1]
Alphanumeric == CharsOf(Lowercase) \cup CharsOf(Uppercase) \cup CharsOf(Digits)
to_uppercase(c) == IF c \in DOMAIN LowerToUpper THEN LowerToUpper[c] ELSE c
to_lowercase(c) == IF c \in DOMAIN UpperToLower THEN UpperToLower[c] ELSE c
is_alphanumeric(c) == c \in Alphanumeric

\* A search that ignores case, as the (?i) flag would make it.
RECURSIVE lowercase_from(_, _)
lowercase_from(s, i) ==
    IF i > Len(s) THEN "" ELSE to_lowercase(Char(s, i)) \o lowercase_from(s, i + 1)
str_contains_ignore_case(s, pattern) ==
    \E i \in 0..(Len(s) - Len(pattern)) :
        SubSeq(lowercase_from(s, 1), i + 1, i + Len(pattern)) = lowercase_from(pattern, 1)

\* polars str.contains(pattern): an unanchored, case-sensitive regular
\* expression search (literal=False is the default).  Of the regular
\* expression syntax the model keeps literal characters and ".".
str_contains(s, pattern) ==
    \E i \in 0..(Len(s) - Len(pattern)) :
        \A j \in 1..Len(pattern) :
            Char(pattern, j) = "." \/ Char(pattern, j) = Char(s, i + j)

\* polars str.starts_with(prefix): a literal prefix test.
\* The prefix searched anywhere in the string.
str_starts_with_anywhere(s, prefix) == str_contains(s, prefix)

str_starts_with(s, prefix) ==
    Len(s) >= Len(prefix) /\ SubSeq(s, 1, Len(prefix)) = prefix

\* polars str.to_titlecase: the first letter of every word in upper case, the
\* other letters in lower case; a word starts after a non-alphanumeric character.
RECURSIVE titlecase_from(_, _, _)
titlecase_from(s, i, next_is_upper) ==
    IF i > Len(s) THEN ""
    ELSE (IF next_is_upper THEN to_uppercase(Char(s, i)) ELSE to_lowercase(Char(s, i)))
         \o titlecase_from(s, i + 1, ~is_alphanumeric(Char(s, i)))
to_titlecase(s) == titlecase_from(s, 1, TRUE)

(***************************************************************************)
(* Transform.categorize_data.  category_keywords is the dict as the        *)
(* sequence of its items <<category, keywords>> in iteration order;        *)
(* alternative_category is pl.lit(value) or pl.col("category")             *)
(* .str.to_titlecase().                                                    *)
(***************************************************************************)
Lit(value) == [kind |-> "lit", value |-> value]
ColCategoryTitlecase == [kind |-> "col_category_to_titlecase"]

\* What a Python for loop takes from a JSON value: the elements of a list,
\* the characters of a string.
iterate(value) == [k \in 1..Len(value) |-> Head(SubSeq(value, k, k))]

\* The (category, keyword) pairs in the order the two nested loops visit them.
RECURSIVE keyword_pairs(_)
keyword_pairs(category_keywords) ==
    IF category_keywords = <<>> THEN <<>>
    ELSE LET item == Head(category_keywords)
         IN  [k \in 1..Len(item[2]) |-> <<item[1], iterate(item[2])[k]>>]
             \o keyword_pairs(Tail(category_keywords))

\* One pass of the loop body: with_columns(when(contains).then(category)
\* .otherwise(alternative_category).alias("category")).
categorize_step(df, pair, alternative_category) ==
    IF IsError(df) THEN df
    ELSE IF alternative_category.kind # "lit" /\ "category" \notin df.columns
    THEN Raise("ColumnNotFoundError")
    ELSE DataFrame(df.columns \cup {"category"},
            [i \in DOMAIN df.rows |->
                with_column(df.rows[i], "category",
                    IF str_contains(df.rows[i]["title"], pair[2]) THEN pair[1]
                    ELSE IF alternative_category.kind = "lit"
                         THEN alternative_category.value
                         ELSE to_titlecase(df.rows[i]["category"]))])

RECURSIVE categorize_loop(_, _, _)
categorize_loop(df, pairs, alternative_category) ==
    IF pairs = <<>> THEN df
    ELSE categorize_loop(categorize_step(df, Head(pairs), alternative_category),
                         Tail(pairs), alternative_category)

\* The empty mapping leaving an existing category column as it is.
categorize_data_keep_case(df, category_keywords, alternative_category) ==
    IF IsError(df) THEN df
    ELSE IF category_keywords # <<>>
    THEN categorize_loop(df, keyword_pairs(category_keywords), alternative_category)
    ELSE IF "category" \notin df.columns
    THEN DataFrame(df.columns \cup {"category"},
            [i \in DOMAIN df.rows |-> with_column(df.rows[i], "category", "Outros")])
    ELSE df

categorize_data(df, category_keywords, alternative_category) ==
    IF IsError(df) THEN df
    ELSE IF category_keywords # <<>>
    THEN categorize_loop(df, keyword_pairs(category_keywords), alternative_category)
    ELSE IF "category" \notin df.columns
    THEN DataFrame(df.columns \cup {"category"},
            [i \in DOMAIN df.rows |-> with_column(df.rows[i], "category", "Outros")])
    ELSE DataFrame(df.columns,
            [i \in DOMAIN df.rows |->
                with_column(df.rows[i], "category", to_titlecase(df.rows[i]["category"]))])

(***************************************************************************)
(* Dates.  strptime(pl.Date, format) in strict mode, for the two formats   *)
(* the feeds use, on zero-padded fields; NoDate stands for a string that   *)
(* does not parse, on which polars raises.                                 *)
(***************************************************************************)
NoDate == -1

RECURSIVE parse_digits(_)
parse_digits(s) ==
    IF s = "" THEN 0
    ELSE LET last == Char(s, Len(s))
             rest == parse_digits(SubSeq(s, 1, Len(s) - 1))
         IN  IF last \notin DOMAIN DigitValue \/ rest < 0 THEN -1
             ELSE 10 * rest + DigitValue[last]

is_leap_year(y) == (y % 4 = 0 /\ y % 100 # 0) \/ y % 400 = 0
days_in_month(y, m) ==
    IF m = 2 THEN (IF is_leap_year(y) THEN 29 ELSE 28)
    ELSE IF m \in {4, 6, 9, 11} THEN 30 ELSE 31

make_date(y, m, d) ==
    IF y >= 0 /\ m \in 1..12 /\ d >= 1 /\ d <= days_in_month(y, m)
    THEN y * 10000 + m * 100 + d
    ELSE NoDate

year_of(date) == date \div 10000
month_of(date) == (date \div 100) % 100

strptime(s, format) ==
    IF Len(s) # 10 THEN NoDate
    ELSE IF format = "%d/%m/%Y"
    THEN IF Char(s, 3) = "/" /\ Char(s, 6) = "/"
         THEN make_date(parse_digits(SubSeq(s, 7, 10)), parse_digits(SubSeq(s, 4, 5)),
                        parse_digits(SubSeq(s, 1, 2)))
         ELSE NoDate
    ELSE IF format = "%Y-%m-%d"
    THEN IF Char(s, 5) = "-" /\ Char(s, 8) = "-"
         THEN make_date(parse_digits(SubSeq(s, 1, 4)), parse_digits(SubSeq(s, 6, 7)),
                        parse_digits(SubSeq(s, 9, 10)))
         ELSE NoDate
    ELSE NoDate

(***************************************************************************)
(* Transform.process_data.  transaction_type is a string (the whole column *)
(* is that string) or the expression process_data_account passes.          *)
(***************************************************************************)
TitlePrefixRule == [kind |-> "title_prefix_rule"]

\* The when/then chain of process_data_account, evaluated on one title.
account_transaction_type(title) ==
    IF str_starts_with(title, "Transferencia") THEN "Transferencia"
    ELSE IF str_starts_with(title, "Estorno") THEN "Estorno"
    ELSE IF str_starts_with(title, "Compra no debito") THEN "Debito"
    ELSE "Outros"

\* The boundary moved: an amount of 0 counted as income.
type_of_amount_zero_income(amount) == IF amount >= 0 THEN "Entrada" ELSE "Saida"

type_of_amount(amount) == IF amount > 0 THEN "Entrada" ELSE "Saida"

\* The unwanted strings searched in the title instead of compared with it.
is_unwanted_substring(title, unwanted_keywords) ==
    \E keyword \in unwanted_keywords : str_contains(title, keyword)

\* pl.col("title").is_in(unwanted_keywords)
is_unwanted(title, unwanted_keywords) == is_in(title, unwanted_keywords)

process_row(row, date_format, amount_multiplier, transaction_type) ==
    LET amount == row["amount"] * amount_multiplier
        r1 == with_column(row, "date", strptime(row["date"], date_format))
        r2 == with_column(r1, "amount", amount)
        r3 == with_column(r2, "type", type_of_amount(amount))
    IN  with_column(r3, "transaction",
            IF transaction_type.kind = "lit" THEN transaction_type.value
            ELSE account_transaction_type(row["title"]))

\* strptime with strict=False and the rows without a date dropped.
process_data_skip_unparsable(df, date_format, amount_multiplier, transaction_type, unwanted_keywords) ==
    IF IsError(df) THEN df
    ELSE IF ~({"date", "amount", "title"} \subseteq df.columns)
    THEN Raise("ColumnNotFoundError")
    ELSE LET parses(row) == strptime(row["date"], date_format) # NoDate
             parsed == SelectSeq(df.rows, parses)
             processed == [i \in DOMAIN parsed |->
                 process_row(parsed[i], date_format, amount_multiplier, transaction_type)]
             wanted(row) == ~is_unwanted(row["title"], unwanted_keywords)
         IN  DataFrame(df.columns \cup {"type", "transaction"}, SelectSeq(processed, wanted))

process_data(df, date_format, amount_multiplier, transaction_type, unwanted_keywords) ==
    IF IsError(df) THEN df
    ELSE IF ~({"date", "amount", "title"} \subseteq df.columns)
    THEN Raise("ColumnNotFoundError")
    ELSE IF \E i \in DOMAIN df.rows : strptime(df.rows[i]["date"], date_format) = NoDate
    THEN Raise("InvalidOperationError")
    ELSE LET processed == [i \in DOMAIN df.rows |->
                 process_row(df.rows[i], date_format, amount_multiplier, transaction_type)]
             wanted(row) == ~is_unwanted(row["title"], unwanted_keywords)
         IN  DataFrame(df.columns \cup {"type", "transaction"}, SelectSeq(processed, wanted))

CanonicalColumns == {"date", "type", "transaction", "category", "title", "amount"}

\* polars DataFrame.rename(mapping): ColumnNotFoundError if an old name is absent.
rename(df, old, new) ==
    IF IsError(df) THEN df
    ELSE IF ~({old[k] : k \in DOMAIN old} \subseteq df.columns)
    THEN Raise("ColumnNotFoundError")
    ELSE LET olds == {old[k] : k \in DOMAIN old}
             news == {new[k] : k \in DOMAIN new}
             from(c) == IF c \in news THEN old[CHOOSE k \in DOMAIN new : new[k] = c] ELSE c
             columns == (df.columns \ olds) \cup news
         IN  DataFrame(columns,
                 [i \in DOMAIN df.rows |-> [c \in columns |-> df.rows[i][from(c)]]])

process_data_account(df, category_keywords) ==
    select(
        categorize_data(
            process_data(
                rename(df, <<"Data", "Valor", "Descricao">>, <<"date", "amount", "title">>),
                "%d/%m/%Y", 1, TitlePrefixRule, {"Pagamento de fatura"}),
            category_keywords, Lit("Outros")),
        CanonicalColumns)

\* The credit-card feed with the amounts left as the statement has them.
process_data_credit_card_not_negated(df, category_keywords) ==
    select(
        categorize_data(
            process_data(df, "%Y-%m-%d", 1, Lit("Credito"), {"Pagamento recebido"}),
            category_keywords, ColCategoryTitlecase),
        CanonicalColumns)

process_data_credit_card(df, category_keywords) ==
    select(
        categorize_data(
            process_data(df, "%Y-%m-%d", -1, Lit("Credito"), {"Pagamento recebido"}),
            category_keywords, ColCategoryTitlecase),
        CanonicalColumns)

(***************************************************************************)
(* Transform.concat_sort_data: pl.concat(data).sort(date_column,           *)
(* descending=True).  The sort is called without maintain_order, so the    *)
(* order of rows with equal dates is not fixed: the operator is the set of *)
(* results the call may return.                                            *)
(***************************************************************************)
Permutations_of(n) == {p \in [1..n -> 1..n] : \A i, j \in 1..n : p[i] = p[j] => i = j}

concat(a, b) ==
    IF IsError(a) THEN a
    ELSE IF IsError(b) THEN b
    ELSE IF a.columns # b.columns THEN Raise("ShapeError")
    ELSE DataFrame(a.columns, a.rows \o b.rows)

\* The sort without descending=True: oldest first.
sort_ascending(df, column) ==
    IF IsError(df) THEN {df}
    ELSE IF column \notin df.columns THEN {Raise("ColumnNotFoundError")}
    ELSE {DataFrame(df.columns, [i \in DOMAIN df.rows |-> df.rows[p[i]]]) :
            p \in {q \in Permutations_of(Len(df.rows)) :
                     \A i \in 1..(Len(df.rows) - 1) :
                         df.rows[q[i]][column] <= df.rows[q[i + 1]][column]}}

sort_descending(df, column) ==
    IF IsError(df) THEN {df}
    ELSE IF column \notin df.columns THEN {Raise("ColumnNotFoundError")}
    ELSE {DataFrame(df.columns, [i \in DOMAIN df.rows |-> df.rows[p[i]]]) :
            p \in {q \in Permutations_of(Len(df.rows)) :
                     \A i \in 1..(Len(df.rows) - 1) :
                         df.rows[q[i]][column] >= df.rows[q[i + 1]][column]}}

concat_sort_data(a, b, date_column) == sort_descending(concat(a, b), date_column)

(***************************************************************************)
(* Transform.filter_data.  The three lists are used for membership only    *)
(* and are sets here.                                                      *)
(***************************************************************************)
\* The end date excluded.
date_in_range_exclusive_end(date, start_date, end_date) ==
    date >= start_date /\ date < end_date

\* The two date tests joined with | instead of &.
date_in_range_either(date, start_date, end_date) ==
    date >= start_date \/ date <= end_date

\* (pl.col("date") >= pl.lit(start_date)) & (pl.col("date") <= pl.lit(end_date))
date_in_range(date, start_date, end_date) == date >= start_date /\ date <= end_date

filter_data(df, start_date, end_date, types, transactions, categories) ==
    LET keep(row) ==
            /\ date_in_range(row["date"], start_date, end_date)
            /\ is_in(row["type"], types)
            /\ is_in(row["transaction"], transactions)
            /\ is_in(row["category"], categories)
    IN  DataFrame(df.columns, SelectSeq(df.rows, keep))

(***************************************************************************)
(* Inputs.  A raw account table has the columns Data, Valor, Descrição; a  *)
(* raw credit-card table has date, title, amount and, in the export that   *)
(* carries the bank's own category, category.                              *)
(***************************************************************************)
AccountColumns == {"Data", "Valor", "Descricao"}
CreditCardColumns == {"date", "category", "title", "amount"}

AccountRow(date, amount, title) ==
    ("Data" :> date) @@ ("Valor" :> amount) @@ ("Descricao" :> title)
CreditCardRow(date, amount, title, category) ==
    [date |-> date, amount |-> amount, title |-> title, category |-> category]

\* The dicts over the given categories and keywords, as item sequences:
\* the keys of a dict are distinct.
Dicts(categories, keywords) ==
    {d \in SeqsUpTo(categories \X SeqsUpTo(keywords, MaxKeywords), MaxCategories) :
        \A i, j \in DOMAIN d : d[i][1] = d[j][1] => i = j}

\* Rows of the pipeline specification.
AccountRows ==
    { AccountRow("05/01/2024", 10, "Transferencia recebida"),
      AccountRow("02/01/2024", 0, "Pagamento de fatura atrasada"),
      AccountRow("02/01/2024", -5, "Compra no debito pizza Hut"),
      AccountRow("15/12/2023", -7, "Pagamento de fatura"),
      AccountRow("2024-01-03", 10, "Transferencia recebida") }
CreditCardRows ==
    { CreditCardRow("2024-01-05", 5, "pizza Hut", "restaurante"),
      CreditCardRow("2024-01-02", 0, "Pagamento recebido parcial", "outros"),
      CreditCardRow("2023-12-15", -5, "Estorno loja", "transporte"),
      CreditCardRow("2024-01-02", -7, "Pagamento recebido", "outros"),
      CreditCardRow("2024-02-31", 5, "pizza Hut", "restaurante") }
PipelineDicts == { <<>>, << <<"Food", <<"pizza">> >> >> }

(***************************************************************************)
(* App.transform_data and App.display_sidebar.                             *)
(***************************************************************************)
Init ==
    /\ account_data \in {DataFrame(AccountColumns, rows) : rows \in SeqsUpTo(AccountRows, MaxRows)}
    /\ credit_card_data \in
         {DataFrame(CreditCardColumns, rows) : rows \in SeqsUpTo(CreditCardRows, MaxRows)}
    /\ Len(account_data.rows) + Len(credit_card_data.rows) <= MaxRows
    /\ session_state \in {[category_keywords_json |-> d] : d \in PipelineDicts}
    /\ processed_account = None
    /\ processed_credit_card = None
    /\ data = None
    /\ filtered_data = None
    /\ sidebar = None
    /\ raised = None
    /\ cache_data = {}

\* App.data when an exception leaves transform_data before its assignment:
\* load_data assigns the raw table it stacks to App.data on the way, so it
\* is None (both loads answered by the cache or by session_state), the empty
\* DataFrame() of the sample source, or the raw table loaded last.
data_after_load ==
    {None, DataFrame({}, <<>>), account_data, credit_card_data}

\* The script run got past transform_data.
transform_returned == IsFrame(processed_account) /\ IsFrame(processed_credit_card)

\* App.transform_data after the two tables are loaded: the arguments of
\* concat_sort_data are evaluated left to right, and an exception of either
\* ends the run before App.data is assigned the merge.
transform_data ==
    /\ data = None
    /\ processed_account = None
    /\ LET account == process_data_account(account_data, category_keywords_json)
           credit_card == IF IsError(account) THEN None
                          ELSE process_data_credit_card(credit_card_data, category_keywords_json)
       IN  /\ processed_account' = account
           /\ processed_credit_card' = credit_card
           /\ IF IsFrame(account) /\ IsFrame(credit_card)
              THEN data' \in {df \in concat_sort_data(account, credit_card, "date") : IsFrame(df)}
              ELSE data' \in data_after_load
           /\ raised' = IF IsError(account) THEN Raise(account.error)
                         ELSE IF IsError(credit_card) THEN Raise(credit_card.error)
                         ELSE None
    /\ UNCHANGED <<account_data, credit_card_data, session_state, cache_data,
                   filtered_data, sidebar>>

column_values(df, column) == {df.rows[i][column] : i \in DOMAIN df.rows}
column_max(df, column) ==
    CHOOSE v \in column_values(df, column) : \A w \in column_values(df, column) : w <= v
column_min(df, column) ==
    CHOOSE v \in column_values(df, column) : \A w \in column_values(df, column) : v <= w

\* Series.dt.truncate("1mo") and the day before a first of the month.
truncate_month(date) == make_date(year_of(date), month_of(date), 1)
day_before_first(date) ==
    IF month_of(date) = 1 THEN make_date(year_of(date) - 1, 12, 31)
    ELSE make_date(year_of(date), month_of(date) - 1,
                   days_in_month(year_of(date), month_of(date) - 1))

\* What the widgets of the sidebar can return for the table df: the dates of
\* "Filter to the previous month" or two dates the user picks, and for each
\* multiselect a subset of its options.  The user of the model unticks at
\* most one option in all.
DateChoices(df) ==
    LET end_date == day_before_first(truncate_month(column_max(df, "date")))
    IN  { <<truncate_month(end_date), end_date>> }
        \cup (column_values(df, "date") \X column_values(df, "date"))

Selections(df) ==
    LET all == [types |-> column_values(df, "type"),
                transactions |-> column_values(df, "transaction"),
                categories |-> column_values(df, "category")]
    IN  {all}
        \cup {[all EXCEPT !.types = @ \ {v}] : v \in all.types}
        \cup {[all EXCEPT !.transactions = @ \ {v}] : v \in all.transactions}
        \cup {[all EXCEPT !.categories = @ \ {v}] : v \in all.categories}

\* A filter in place: the kept rows assigned to App.data as well.
display_sidebar_in_place ==
    /\ transform_returned
    /\ IsFrame(data)
    /\ "date" \in data.columns
    /\ Len(data.rows) > 0
    /\ filtered_data = None
    /\ \E dates \in DateChoices(data), selection \in Selections(data) :
          /\ sidebar' = [start_date |-> dates[1], end_date |-> dates[2],
                         types |-> selection.types,
                         transactions |-> selection.transactions,
                         categories |-> selection.categories]
          /\ filtered_data' = filter_data(data, dates[1], dates[2], selection.types,
                                          selection.transactions, selection.categories)
          /\ data' = filtered_data'
    /\ UNCHANGED <<account_data, credit_card_data, session_state, raised, cache_data,
                   processed_account, processed_credit_card>>

\* App.display_sidebar: runs once per script run that transform_data did not
\* end with an exception, on a table with a date column; with no rows the date widgets have no minimum and maximum to show
\* and the model leaves that run out.
display_sidebar ==
    /\ transform_returned
    /\ IsFrame(data)
    /\ "date" \in data.columns
    /\ Len(data.rows) > 0
    /\ filtered_data = None
    /\ \E dates \in DateChoices(data), selection \in Selections(data) :
          /\ sidebar' = [start_date |-> dates[1], end_date |-> dates[2],
                         types |-> selection.types,
                         transactions |-> selection.transactions,
                         categories |-> selection.categories]
          /\ filtered_data' = filter_data(data, dates[1], dates[2], selection.types,
                                          selection.transactions, selection.categories)
    /\ UNCHANGED <<account_data, credit_card_data, session_state, raised, cache_data,
                   processed_account, processed_credit_card, data>>

\* A rerun of the script builds a new App: data and filtered_data are None again.
rerun ==
    /\ processed_account # None
    /\ processed_account' = None
    /\ processed_credit_card' = None
    /\ data' = None
    /\ filtered_data' = None
    /\ sidebar' = None
    /\ raised' = None
    /\ UNCHANGED <<account_data, credit_card_data, session_state, cache_data>>

Next == transform_data \/ display_sidebar \/ rerun

Spec == Init /\ [][Next]_vars

(***************************************************************************)
(* The two feeds on their own: process_data_account and                    *)
(* process_data_credit_card applied to one raw table, under every keyword  *)
(* mapping over two categories and two keywords.                           *)
(***************************************************************************)
FeedTitles == {"Pizza Hut", "pizza Hut", "Posto gas"}
FeedCategories == {"Food", "Dining"}
FeedKeywords == {"pizza", "gas"}
FeedAccountRows == {AccountRow("02/01/2024", -5, title) : title \in FeedTitles}
FeedCreditCardRows ==
    {CreditCardRow("2024-01-02", 5, title, category) :
        title \in FeedTitles, category \in {"transporte", "iFood"}}

\* A credit-card export without the category column.
drop_column(df, column) ==
    DataFrame(df.columns \ {column},
        [i \in DOMAIN df.rows |-> [c \in df.columns \ {column} |-> df.rows[i][c]]])

FeedAccountTables ==
    {DataFrame(AccountColumns, rows) : rows \in SeqsUpTo(FeedAccountRows, MaxFeedRows)}

\* Account titles for the transaction rule: each prefix at the start of a
\* title, alone, at a later position, and in another case.
PrefixTitles ==
    { "Transferencia recebida", "Transferencia", "Estorno de compra",
      "Compra no debito pizza", "Pix Transferencia enviada", "Pedido de Estorno",
      "Loja Compra no debito", "transferencia recebida", "Compra no credito",
      "Posto gas" }
PrefixAccountTables ==
    {DataFrame(AccountColumns, rows) :
        rows \in SeqsUpTo({AccountRow("02/01/2024", -5, title) : title \in PrefixTitles},
                          MaxFeedRows)}
FeedCreditCardTables ==
    LET tables == {DataFrame(CreditCardColumns, rows) :
                      rows \in SeqsUpTo(FeedCreditCardRows, MaxFeedRows)}
    IN  tables \cup {drop_column(df, "category") : df \in tables}

InitFeed ==
    /\ \/ /\ account_data \in FeedAccountTables
          /\ credit_card_data = DataFrame(CreditCardColumns, <<>>)
          /\ session_state \in
                {[category_keywords_json |-> d] : d \in Dicts(FeedCategories, FeedKeywords)}
       \/ /\ account_data = DataFrame(AccountColumns, <<>>)
          /\ credit_card_data \in FeedCreditCardTables
          /\ session_state \in
                {[category_keywords_json |-> d] : d \in Dicts(FeedCategories, FeedKeywords)}
       \/ /\ account_data \in PrefixAccountTables
          /\ credit_card_data = DataFrame(CreditCardColumns, <<>>)
          /\ session_state = [category_keywords_json |-> <<>>]
    /\ processed_account = None
    /\ processed_credit_card = None
    /\ data = None
    /\ filtered_data = None
    /\ sidebar = None
    /\ raised = None
    /\ cache_data = {}

call_process_data_account ==
    /\ processed_account = None
    /\ processed_account' = process_data_account(account_data, category_keywords_json)
    /\ UNCHANGED <<account_data, credit_card_data, session_state, raised, cache_data,
                   processed_credit_card, data, filtered_data, sidebar>>

call_process_data_credit_card ==
    /\ processed_credit_card = None
    /\ processed_credit_card' =
           process_data_credit_card(credit_card_data, category_keywords_json)
    /\ UNCHANGED <<account_data, credit_card_data, session_state, raised, cache_data,
                   processed_account, data, filtered_data, sidebar>>

NextFeed == call_process_data_account \/ call_process_data_credit_card

SpecFeed == InitFeed /\ [][NextFeed]_vars

(***************************************************************************)
(* filter_data on its own: a canonical table and every combination of      *)
(* arguments over three dates and two values per list.                     *)
(***************************************************************************)
FilterDates == {20231215, 20240102, 20240105}
FilterTypes == {"Entrada", "Saida"}
FilterTransactions == {"Transferencia", "Credito"}
FilterCategories == {"Outros", "Food"}
FilterRows ==
    {[date |-> d, type |-> "Entrada", transaction |-> "Transferencia",
      category |-> "Outros", title |-> "Transferencia recebida", amount |-> 10] :
        d \in FilterDates}
    \cup
    {[date |-> d, type |-> "Saida", transaction |-> "Credito",
      category |-> "Food", title |-> "pizza Hut", amount |-> -5] : d \in FilterDates}

InitFilter ==
    /\ account_data = DataFrame(AccountColumns, <<>>)
    /\ credit_card_data = DataFrame(CreditCardColumns, <<>>)
    /\ session_state = [category_keywords_json |-> <<>>]
    /\ processed_account = None
    /\ processed_credit_card = None
    /\ data \in {DataFrame(CanonicalColumns, rows) : rows \in SeqsUpTo(FilterRows, MaxFilterRows)}
    /\ filtered_data = None
    /\ sidebar = None
    /\ raised = None
    /\ cache_data = {}

call_filter_data ==
    /\ filtered_data = None
    /\ \E start_date \in FilterDates, end_date \in FilterDates,
          types \in SUBSET FilterTypes, transactions \in SUBSET FilterTransactions,
          categories \in SUBSET FilterCategories :
          /\ sidebar' = [start_date |-> start_date, end_date |-> end_date,
                         types |-> types, transactions |-> transactions,
                         categories |-> categories]
          /\ filtered_data' =
                 filter_data(data, start_date, end_date, types, transactions, categories)
    /\ UNCHANGED <<account_data, credit_card_data, session_state, raised, cache_data,
                   processed_account, processed_credit_card, data>>

NextFilter == call_filter_data

SpecFilter == InitFilter /\ [][NextFilter]_vars

(***************************************************************************)
(* Properties of the categorizer (checked under SpecFeed).                 *)
(***************************************************************************)
\* The input rows a feed keeps, in input order.
KeptRows(df, title_column, unwanted_keywords) ==
    LET kept(row) == row[title_column] \notin unwanted_keywords
    IN  SelectSeq(df.rows, kept)

\* The positions, in loop order, of the pairs whose keyword the title matches.
MatchingPairs(title, category_keywords) ==
    {k \in DOMAIN keyword_pairs(category_keywords) :
        str_contains(title, keyword_pairs(category_keywords)[k][2])}
LastOf(S) == CHOOSE k \in S : \A l \in S : l <= k
LastMatchingCategory(title, category_keywords) ==
    keyword_pairs(category_keywords)[LastOf(MatchingPairs(title, category_keywords))][1]

\* C1: with a non-empty mapping and the constant fallback of the account feed,
\* every transaction whose title matches at least one keyword ends with the
\* category of the last matching (category, keyword) pair in iteration order,
\* also when later pairs do not match it.
C1_LastMatchingKeywordWins ==
    (IsFrame(processed_account) /\ category_keywords_json # <<>>) =>
        \A i \in DOMAIN processed_account.rows :
            LET row == processed_account.rows[i]
            IN  MatchingPairs(row["title"], category_keywords_json) # {} =>
                    row["category"] = LastMatchingCategory(row["title"], category_keywords_json)

PizzaDict == << <<"Food", <<"pizza">> >>, <<"Dining", <<"pizza">> >> >>

\* C2 as stated: under {"Food": ["pizza"], "Dining": ["pizza"]} a transaction
\* titled "Pizza Hut" ends with the category "Dining".
C2_PizzaHutIsDining ==
    category_keywords_json = PizzaDict =>
        /\ IsFrame(processed_account) =>
              \A i \in DOMAIN processed_account.rows :
                  processed_account.rows[i]["title"] = "Pizza Hut"
                      => processed_account.rows[i]["category"] = "Dining"
        /\ IsFrame(processed_credit_card) =>
              \A i \in DOMAIN processed_credit_card.rows :
                  processed_credit_card.rows[i]["title"] = "Pizza Hut"
                      => processed_credit_card.rows[i]["category"] = "Dining"

\* C2 amended: under {"Food": ["pizza"], "Dining": ["pizza"]} a transaction
\* titled "pizza Hut" ends with the category "Dining"; one titled "Pizza Hut"
\* matches no keyword, the test being case-sensitive, and ends with the
\* fallback: "Outros" in the account feed, its own category title-cased in
\* the credit-card feed.
C2_PizzaKeywordIsCaseSensitive ==
    category_keywords_json = PizzaDict =>
        /\ IsFrame(processed_account) =>
              \A i \in DOMAIN processed_account.rows :
                  LET row == processed_account.rows[i]
                  IN  /\ row["title"] = "pizza Hut" => row["category"] = "Dining"
                      /\ row["title"] = "Pizza Hut" => row["category"] = "Outros"
        /\ IsFrame(processed_credit_card) =>
              \A i \in DOMAIN processed_credit_card.rows :
                  LET row == processed_credit_card.rows[i]
                      raw == KeptRows(credit_card_data, "title", {"Pagamento recebido"})[i]
                  IN  /\ row["title"] = "pizza Hut" => row["category"] = "Dining"
                      /\ row["title"] = "Pizza Hut"
                            => row["category"] = to_titlecase(raw["category"])

C2_Witness ==
    /\ category_keywords_json = PizzaDict
    /\ IsFrame(processed_account)
    /\ \E i \in DOMAIN processed_account.rows :
          /\ processed_account.rows[i]["title"] = "Pizza Hut"
          /\ processed_account.rows[i]["category"] = "Outros"

\* C3: with a non-empty mapping, every transaction whose title matches none of
\* the keywords ends with the fallback category, "Outros" in the account feed
\* and the title-cased existing category in the credit-card feed, and the
\* call is not an error.
C3_NoMatchGetsFallback ==
    category_keywords_json # <<>> =>
        /\ processed_account # None =>
              /\ IsFrame(processed_account)
              /\ \A i \in DOMAIN processed_account.rows :
                    LET row == processed_account.rows[i]
                    IN  MatchingPairs(row["title"], category_keywords_json) = {}
                            => row["category"] = "Outros"
        /\ (processed_credit_card # None /\ "category" \in credit_card_data.columns) =>
              /\ IsFrame(processed_credit_card)
              /\ \A i \in DOMAIN processed_credit_card.rows :
                    LET row == processed_credit_card.rows[i]
                        raw == KeptRows(credit_card_data, "title", {"Pagamento recebido"})[i]
                    IN  MatchingPairs(row["title"], category_keywords_json) = {}
                            => row["category"] = to_titlecase(raw["category"])

(***************************************************************************)
(* Properties of the normalizer and of the pipeline (checked under Spec).  *)
(***************************************************************************)
TypeMatchesSign(df) ==
    IsFrame(df) =>
        \A i \in DOMAIN df.rows :
            /\ df.rows[i]["type"] \in {"Entrada", "Saida"}
            /\ df.rows[i]["type"] = "Entrada" <=> df.rows[i]["amount"] > 0

RowsOf(df) == IF IsFrame(df) THEN {df.rows[i] : i \in DOMAIN df.rows} ELSE {}

\* C4: in every table the pipeline produces (each feed after normalization
\* and categorization, the merged table, the filtered table) type is "Entrada"
\* exactly when amount > 0, so an amount of 0 has type "Saída"; the rows of the
\* merged table are rows of the feeds and the rows of the filtered table are
\* rows of the merged one, type and amount included.
C4_TypeMatchesSignOfAmount ==
    /\ TypeMatchesSign(processed_account)
    /\ TypeMatchesSign(processed_credit_card)
    /\ transform_returned =>
          /\ TypeMatchesSign(data)
          /\ RowsOf(data) \subseteq RowsOf(processed_account) \cup RowsOf(processed_credit_card)
    /\ TypeMatchesSign(filtered_data)
    /\ RowsOf(filtered_data) \subseteq RowsOf(data)

C4_Witness ==
    /\ IsFrame(filtered_data)
    /\ \E i \in DOMAIN filtered_data.rows :
          filtered_data.rows[i]["amount"] = 0 /\ filtered_data.rows[i]["type"] = "Saida"
    /\ \E i \in DOMAIN filtered_data.rows :
          filtered_data.rows[i]["amount"] > 0 /\ filtered_data.rows[i]["type"] = "Entrada"

\* C5: every credit-card row that survives normalization has the negated raw
\* amount (type "Entrada" exactly when the raw amount is negative) and the
\* transaction "Crédito"; every account row has the raw amount unchanged.
C5_CreditCardAmountsNegated ==
    /\ IsFrame(processed_credit_card) =>
          LET raw == KeptRows(credit_card_data, "title", {"Pagamento recebido"})
          IN  /\ Len(processed_credit_card.rows) = Len(raw)
              /\ \A i \in DOMAIN raw :
                    LET row == processed_credit_card.rows[i]
                    IN  /\ row["amount"] = 0 - raw[i]["amount"]
                        /\ row["transaction"] = "Credito"
                        /\ row["type"] = "Entrada" <=> raw[i]["amount"] < 0
    /\ IsFrame(processed_account) =>
          LET raw == KeptRows(account_data, "Descricao", {"Pagamento de fatura"})
          IN  /\ Len(processed_account.rows) = Len(raw)
              /\ \A i \in DOMAIN raw : processed_account.rows[i]["amount"] = raw[i]["Valor"]

C5_Witness ==
    /\ IsFrame(processed_credit_card)
    /\ IsFrame(processed_account)
    /\ \E i \in DOMAIN credit_card_data.rows : credit_card_data.rows[i]["amount"] = -5
    /\ \E i \in DOMAIN processed_credit_card.rows :
          /\ processed_credit_card.rows[i]["amount"] = 5
          /\ processed_credit_card.rows[i]["type"] = "Entrada"
    /\ \E i \in DOMAIN processed_account.rows : processed_account.rows[i]["amount"] = -5

\* The strictly increasing maps from 1..n into 1..m.
Embeddings(n, m) == {f \in [1..n -> 1..m] : \A a, b \in 1..n : a < b => f[a] < f[b]}

\* out holds, in input order, exactly the rows of inp whose title is not in
\* unwanted_keywords (a row is recognised by its title and its raw amount).
KeepsAllButUnwanted(out, inp, title_column, amount_column, multiplier, unwanted_keywords) ==
    /\ \A k \in DOMAIN out : out[k]["title"] \notin unwanted_keywords
    /\ \E f \in Embeddings(Len(out), Len(inp)) :
          /\ \A k \in DOMAIN out :
                /\ out[k]["title"] = inp[f[k]][title_column]
                /\ out[k]["amount"] = multiplier * inp[f[k]][amount_column]
          /\ \A j \in DOMAIN inp :
                inp[j][title_column] \notin unwanted_keywords => \E k \in DOMAIN out : f[k] = j

\* C6: the output of a feed has no row whose title equals one of the feed's
\* unwanted strings ("Pagamento de fatura", "Pagamento recebido") and has, in
\* input order, every input row whose title is not equal to one of them,
\* rows whose title only contains the unwanted string included.
C6_UnwantedRowsDropped ==
    /\ IsFrame(processed_account) =>
          KeepsAllButUnwanted(processed_account.rows, account_data.rows,
                              "Descricao", "Valor", 1, {"Pagamento de fatura"})
    /\ IsFrame(processed_credit_card) =>
          KeepsAllButUnwanted(processed_credit_card.rows, credit_card_data.rows,
                              "title", "amount", -1, {"Pagamento recebido"})

C6_Witness ==
    /\ IsFrame(processed_account)
    /\ Len(account_data.rows) = 3
    /\ \E i \in DOMAIN account_data.rows :
          account_data.rows[i]["Descricao"] = "Pagamento de fatura"
    /\ Len(processed_account.rows) = 2
    /\ processed_account.rows[1]["title"] = "Pagamento de fatura atrasada"
    /\ processed_account.rows[2]["title"] = "Transferencia recebida"

\* C10: a filter_data call whose dates are the minimum and the maximum date of
\* the merged table and whose lists hold every type, transaction and category
\* of it returns the merged table: the same rows, values and order.
SidebarIsFull ==
    /\ IsFrame(data)
    /\ sidebar # None
    /\ sidebar.start_date = column_min(data, "date")
    /\ sidebar.end_date = column_max(data, "date")
    /\ sidebar.types = column_values(data, "type")
    /\ sidebar.transactions = column_values(data, "transaction")
    /\ sidebar.categories = column_values(data, "category")

C10_FullFilterReturnsAll == SidebarIsFull => filtered_data = data

C10_Witness ==
    /\ SidebarIsFull
    /\ filtered_data = data
    /\ Len(data.rows) = 3
    /\ Cardinality(column_values(data, "date")) = 3
    /\ Cardinality(column_values(data, "category")) >= 2

(***************************************************************************)
(* Properties of filter_data (checked under SpecFilter).                   *)
(***************************************************************************)
Satisfies(row, arguments) ==
    /\ arguments.start_date <= row["date"]
    /\ row["date"] <= arguments.end_date
    /\ row["type"] \in arguments.types
    /\ row["transaction"] \in arguments.transactions
    /\ row["category"] \in arguments.categories

\* C7: filter_data returns exactly the rows of its input with
\* start_date <= date <= end_date, type in types, transaction in transactions
\* and category in categories, in their input order.
C7_FilterReturnsExactlyMatchingRows ==
    filtered_data # None =>
        /\ IsFrame(filtered_data)
        /\ filtered_data.columns = data.columns
        /\ \A k \in DOMAIN filtered_data.rows : Satisfies(filtered_data.rows[k], sidebar)
        /\ \E f \in Embeddings(Len(filtered_data.rows), Len(data.rows)) :
              /\ \A k \in DOMAIN filtered_data.rows : filtered_data.rows[k] = data.rows[f[k]]
              /\ \A j \in DOMAIN data.rows :
                    Satisfies(data.rows[j], sidebar) => \E k \in DOMAIN filtered_data.rows : f[k] = j

C7_Witness ==
    /\ IsFrame(filtered_data)
    /\ Len(data.rows) = 2
    /\ data.rows[1]["date"] < data.rows[2]["date"]
    /\ sidebar.start_date = data.rows[2]["date"]
    /\ sidebar.end_date = data.rows[2]["date"]
    /\ filtered_data.rows = <<data.rows[2]>>

\* C8: if types, transactions or categories is empty, the result has no rows,
\* whatever the table and the dates.
C8_EmptyListGivesEmptyResult ==
    (filtered_data # None
        /\ (sidebar.types = {} \/ sidebar.transactions = {} \/ sidebar.categories = {}))
    => (IsFrame(filtered_data) /\ filtered_data.rows = <<>>)

C8_Witness ==
    /\ IsFrame(filtered_data)
    /\ Len(data.rows) = 2
    /\ sidebar.categories = {}
    /\ sidebar.types = FilterTypes
    /\ sidebar.transactions = FilterTransactions
    /\ sidebar.start_date <= data.rows[1]["date"]
    /\ data.rows[1]["date"] <= sidebar.end_date
    /\ filtered_data.rows = <<>>

\* C9: with start_date after end_date the result is a table with no rows,
\* whatever the table and the lists, and not an error.
C9_StartAfterEndGivesEmptyResult ==
    (filtered_data # None /\ sidebar.start_date > sidebar.end_date)
    => (IsFrame(filtered_data) /\ filtered_data.rows = <<>>)

C9_Witness ==
    /\ IsFrame(filtered_data)
    /\ Len(data.rows) = 2
    /\ sidebar.start_date > sidebar.end_date
    /\ sidebar.types = FilterTypes
    /\ sidebar.transactions = FilterTransactions
    /\ sidebar.categories = FilterCategories
    /\ filtered_data.rows = <<>>

(***************************************************************************)
(* Properties of the merge (checked under Spec).                           *)
(***************************************************************************)
Count(rows, row) == Cardinality({i \in DOMAIN rows : rows[i] = row})
DatesOf(df) == [i \in DOMAIN df.rows |-> df.rows[i]["date"]]
Merged == IsFrame(processed_account) /\ IsFrame(processed_credit_card) /\ IsFrame(data)

\* C11: the table concat_sort_data returns is a permutation of the rows of
\* its two inputs taken together (as many rows as the inputs have in all,
\* every row as often as in the inputs) and its dates never increase from
\* one row to the next; merging one row of 2024-01-02 with one row of
\* 2024-01-05 gives 2024-01-05 first.
C11_MergedIsSortedPermutation ==
    Merged =>
        LET inputs == processed_account.rows \o processed_credit_card.rows
        IN  /\ Len(data.rows) = Len(processed_account.rows) + Len(processed_credit_card.rows)
            /\ \A row \in RowsOf(processed_account) \cup RowsOf(processed_credit_card)
                            \cup RowsOf(data) :
                   Count(data.rows, row) = Count(inputs, row)
            /\ \A i \in 1..(Len(data.rows) - 1) :
                   data.rows[i]["date"] >= data.rows[i + 1]["date"]
            /\ (DatesOf(processed_account) = <<20240102>>
                    /\ DatesOf(processed_credit_card) = <<20240105>>)
                 => DatesOf(data) = <<20240105, 20240102>>

\* The example of the claim, where the sort has to move the later row of the
\* second input in front of the row of the first.
C11_Witness ==
    /\ Merged
    /\ DatesOf(processed_account) = <<20240102>>
    /\ DatesOf(processed_credit_card) = <<20240105>>
    /\ DatesOf(data) = <<20240105, 20240102>>
    /\ data.rows[1]["transaction"] = "Credito"

(***************************************************************************)
(* Properties of the filter as App.display_sidebar calls it (checked under *)
(* Spec).                                                                  *)
(***************************************************************************)
FilterCalled == sidebar = None /\ sidebar' # None

\* C12: filter_data does not touch the table it reads.  Every step in which
\* display_sidebar calls it, whatever the arguments and however many runs
\* came before, leaves App.data as it was (rows, values and order), and
\* with it the two processed feeds; only App.filtered_data is replaced.
C12_FilterLeavesDataUnchanged ==
    [][FilterCalled =>
          /\ data' = data
          /\ processed_account' = processed_account
          /\ processed_credit_card' = processed_credit_card
          /\ filtered_data' # filtered_data]_vars

\* A call that dropped rows: the filtered table is shorter than App.data,
\* which still has every row of the merge.
C12_Witness ==
    /\ Merged
    /\ sidebar # None
    /\ IsFrame(filtered_data)
    /\ Len(filtered_data.rows) < Len(data.rows)
    /\ Len(data.rows) = Len(processed_account.rows) + Len(processed_credit_card.rows)

(***************************************************************************)
(* Properties of the account feed's transaction rule (checked under        *)
(* SpecFeed).                                                              *)
(***************************************************************************)
HasPrefix(s, prefix) == \E n \in 0..Len(s) : SubSeq(s, 1, n) = prefix

ExpectedTransaction(title) ==
    IF HasPrefix(title, "Transferencia") THEN "Transferencia"
    ELSE IF HasPrefix(title, "Estorno") THEN "Estorno"
    ELSE IF HasPrefix(title, "Compra no debito") THEN "Debito"
    ELSE "Outros"

PrefixExamples ==
    { <<"Transferencia recebida", "Transferencia">>,
      <<"Transferencia", "Transferencia">>,
      <<"Estorno de compra", "Estorno">>,
      <<"Compra no debito pizza", "Debito">>,
      <<"Pix Transferencia enviada", "Outros">>,
      <<"Pedido de Estorno", "Outros">>,
      <<"Loja Compra no debito", "Outros">>,
      <<"Posto gas", "Outros">> }

\* C13: in the account feed the transaction of a row comes from the start of
\* its title: "Transferência" for a title starting with "Transferência",
\* else "Estorno" for one starting with "Estorno", else "Débito" for one
\* starting with "Compra no débito", else "Outros"; a title holding one of
\* the three strings only further on gets "Outros".
C13_TransactionFromTitlePrefix ==
    IsFrame(processed_account) =>
        \A i \in DOMAIN processed_account.rows :
            LET row == processed_account.rows[i]
            IN  /\ row["transaction"] = ExpectedTransaction(row["title"])
                /\ \A example \in PrefixExamples :
                       row["title"] = example[1] => row["transaction"] = example[2]

\* A processed account row whose title has a prefix string only at a later
\* position.
C13_Witness ==
    /\ IsFrame(processed_account)
    /\ \E i \in DOMAIN processed_account.rows :
          /\ processed_account.rows[i]["title"] = "Pix Transferencia enviada"
          /\ processed_account.rows[i]["transaction"] = "Outros"

(***************************************************************************)
(* Properties of categorize_data under the empty mapping (checked under    *)
(* Spec): the account feed reaches it without a category column, the       *)
(* credit-card feed with one.                                              *)
(***************************************************************************)
AccountBeforeCategorize ==
    process_data(rename(account_data, <<"Data", "Valor", "Descricao">>,
                        <<"date", "amount", "title">>),
                 "%d/%m/%Y", 1, TitlePrefixRule, {"Pagamento de fatura"})
CreditCardBeforeCategorize ==
    process_data(credit_card_data, "%Y-%m-%d", -1, Lit("Credito"), {"Pagamento recebido"})

TitleCased ==
    ("restaurante" :> "Restaurante") @@ ("outros" :> "Outros")
        @@ ("transporte" :> "Transporte")

SameButCategory(after, before) ==
    /\ Len(after.rows) = Len(before.rows)
    /\ \A i \in DOMAIN after.rows :
          \A c \in CanonicalColumns \ {"category"} : after.rows[i][c] = before.rows[i][c]

\* C14: under the empty keyword mapping, a table without a category column
\* gets "Outros" in every row, a table with one keeps each row's category
\* in title case, and in both the other columns, the number of rows and
\* their order are the ones categorize_data was given.
C14_EmptyMappingDefaultsCategory ==
    category_keywords_json = <<>> =>
        /\ IsFrame(processed_account) =>
              /\ SameButCategory(processed_account, AccountBeforeCategorize)
              /\ \A i \in DOMAIN processed_account.rows :
                     processed_account.rows[i]["category"] = "Outros"
        /\ IsFrame(processed_credit_card) =>
              /\ SameButCategory(processed_credit_card, CreditCardBeforeCategorize)
              /\ \A i \in DOMAIN processed_credit_card.rows :
                     processed_credit_card.rows[i]["category"] =
                         TitleCased[CreditCardBeforeCategorize.rows[i]["category"]]

\* Both branches at once: an account row given "Outros" and two credit-card
\* rows whose different categories were title-cased in place.
C14_Witness ==
    /\ category_keywords_json = <<>>
    /\ IsFrame(processed_account)
    /\ IsFrame(processed_credit_card)
    /\ Len(processed_account.rows) = 1
    /\ processed_account.rows[1]["category"] = "Outros"
    /\ Len(processed_credit_card.rows) = 2
    /\ processed_credit_card.rows[1]["category"] = "Restaurante"
    /\ processed_credit_card.rows[2]["category"] = "Transporte"

(***************************************************************************)
(* Properties of the pipeline on dates that do not parse (checked under    *)
(* Spec).                                                                  *)
(***************************************************************************)
\* The date strings of the raw rows that are dates in the feed's format.
AccountDates == {"05/01/2024", "02/01/2024", "15/12/2023"}
CreditCardDates == {"2024-01-05", "2024-01-02", "2023-12-15"}

HasBadDate(df, column, dates) == \E i \in DOMAIN df.rows : df.rows[i][column] \notin dates
TransformRan == processed_account # None

\* C16: one row whose date is not a date in the feed's format fails the
\* whole feed: process_data_account / process_data_credit_card return no
\* table at all (the other rows are not kept), transform_data ends there,
\* and App.data is not given a merged table, in part or in whole.
C16_BadDateFailsWholeBatch ==
    TransformRan =>
        /\ HasBadDate(account_data, "Data", AccountDates) =>
              /\ IsError(processed_account)
              /\ processed_credit_card = None
        /\ HasBadDate(credit_card_data, "date", CreditCardDates) =>
              ~IsFrame(processed_credit_card)
        /\ (HasBadDate(account_data, "Data", AccountDates)
                \/ HasBadDate(credit_card_data, "date", CreditCardDates)) =>
              /\ data \in data_after_load
              /\ IsFrame(data) => data.columns \cap {"type", "transaction"} = {}
              /\ filtered_data = None

\* A good account row, and a credit-card table whose bad row comes after a
\* good one: the account feed was normalized, the credit-card feed failed,
\* and App.data holds the raw table load_data left there.
C16_Witness ==
    /\ TransformRan
    /\ Len(account_data.rows) = 1
    /\ ~HasBadDate(account_data, "Data", AccountDates)
    /\ Len(credit_card_data.rows) = 2
    /\ credit_card_data.rows[1]["date"] \in CreditCardDates
    /\ credit_card_data.rows[2]["date"] \notin CreditCardDates
    /\ IsFrame(processed_account)
    /\ Len(processed_account.rows) = 1
    /\ IsError(processed_credit_card)
    /\ data = credit_card_data

(***************************************************************************)
(* The session: the dialog of App.select_data_source, the script run of    *)
(* App.run and the two sidebar buttons, over streamlit.session_state and   *)
(* st.cache_data.  A file the user uploads is the value it holds: a table  *)
(* for the CSV files of a feed, [json |-> value] for a JSON file that      *)
(* parses, [invalid |-> TRUE] for one that does not, None for no file.  A  *)
(* JSON object is the sequence of its items, except the credentials, which *)
(* are the set of the fields they have.                                    *)
(***************************************************************************)
set_item(state, key, value) == (key :> value) @@ state
del_item(state, key) == [k \in (DOMAIN state) \ {key} |-> state[k]]

Returned(value) == [value |-> value]

\* load(file) if file else empty
load_or(file, empty) ==
    IF "none" \in DOMAIN file THEN Returned(empty)
    ELSE IF "json" \in DOMAIN file THEN Returned(file.json)
    ELSE Raise("JSONDecodeError")

ServiceAccountFields == {"client_email", "private_key", "token_uri"}

\* ExtractorFactory.create_extractor; GoogleDriveExtractor.__init__ reads the
\* credentials from session_state and from_service_account_info raises
\* ValueError on an object without the fields of a service account.
create_extractor(data_source, state) ==
    IF data_source \in {"Sample data (demo)", "Local files"}
    THEN Returned("LocalFileExtractor")
    ELSE IF data_source = "Google Drive"
    THEN IF "gcp_credentials_json" \notin DOMAIN state THEN Raise("KeyError")
         ELSE IF ~(ServiceAccountFields \subseteq state["gcp_credentials_json"])
         THEN Raise("ValueError")
         ELSE Returned("GoogleDriveExtractor")
    ELSE Raise("ValueError")

\* The tables behind the sample files and the Google Drive folders.
SampleAccountPath == "financial_tracker/data/sample_account_data.csv"
SampleCreditCardPath == "financial_tracker/data/sample_credit_card_data.csv"
SampleFiles ==
    (SampleAccountPath :>
        DataFrame(AccountColumns, <<AccountRow("05/01/2024", 10, "Transferencia recebida")>>))
    @@ (SampleCreditCardPath :>
        DataFrame(CreditCardColumns, <<CreditCardRow("2024-01-02", 5, "pizza Hut", "restaurante")>>))
AccountFolderId == "account-folder"
CreditCardFolderId == "credit-card-folder"
DriveFolders ==
    (AccountFolderId :>
        DataFrame(AccountColumns, <<AccountRow("15/12/2023", -7, "Estorno de compra")>>))
    @@ (CreditCardFolderId :>
        DataFrame(CreditCardColumns, <<CreditCardRow("2023-12-15", -5, "Estorno loja", "transporte")>>))

\* What the user can upload in the dialog.
AccountUploads ==
    { DataFrame(AccountColumns, <<AccountRow("05/01/2024", 10, "Transferencia recebida")>>),
      DataFrame(AccountColumns, <<AccountRow("02/01/2024", -5, "Compra no debito Posto gas")>>) }
CreditCardUploads ==
    { DataFrame(CreditCardColumns, <<CreditCardRow("2024-01-05", 5, "pizza Hut", "restaurante")>>),
      DataFrame(CreditCardColumns, <<CreditCardRow("2024-01-02", 7, "Posto gas", "transporte")>>) }
JsonFile(value) == [json |-> value]
InvalidJsonFile == [invalid |-> TRUE]
WellFormedKeywords == << <<"Food", <<"pizza">> >> >>
MalformedKeywords == << <<"Transport", "gas">> >>
KeywordUploads ==
    {None, JsonFile(WellFormedKeywords), JsonFile(MalformedKeywords), InvalidJsonFile}
CredentialUploads == {None, JsonFile(ServiceAccountFields)}

\* App.load_data under @cache_data: a call with cached arguments returns the
\* cached table and does not run the body; the body assigns App.data.
load_data(cache, extractor, data_source, argument) ==
    LET key == <<data_source, argument>>
    IN  IF key \in cache
        THEN [value |-> IF data_source = "Sample data (demo)" THEN SampleFiles[argument]
                        ELSE IF data_source = "Local files" THEN argument
                        ELSE DriveFolders[argument],
              cache |-> cache, ran |-> FALSE, self_data |-> None]
        ELSE IF data_source = "Sample data (demo)"
        THEN [value |-> SampleFiles[argument], cache |-> cache \cup {key},
              ran |-> TRUE, self_data |-> DataFrame({}, <<>>)]
        ELSE IF data_source = "Local files"
        THEN [value |-> argument, cache |-> cache \cup {key},
              ran |-> TRUE, self_data |-> argument]
        ELSE IF extractor # "GoogleDriveExtractor"
        THEN [error |-> "TypeError", cache |-> cache, ran |-> FALSE, self_data |-> None]
        ELSE [value |-> DriveFolders[argument], cache |-> cache \cup {key},
              ran |-> TRUE, self_data |-> DriveFolders[argument]]

\* The first part of App.transform_data: the two raw tables of the data
\* source, with the session_state and the cache the loads leave.
load_tables(state, cache) ==
    LET data_source == state["data_source"]
        extractor == state["extractor"]
        both(account, credit_card, new_state) ==
            IF IsError(account)
            THEN [error |-> account.error, state |-> state, cache |-> cache, self_data |-> None]
            ELSE IF IsError(credit_card)
            THEN [error |-> credit_card.error, state |-> state, cache |-> account.cache,
                  self_data |-> IF account.ran THEN account.self_data ELSE None]
            ELSE [account |-> account.value, credit_card |-> credit_card.value,
                  state |-> new_state, cache |-> credit_card.cache,
                  self_data |-> IF credit_card.ran THEN credit_card.self_data
                                ELSE IF account.ran THEN account.self_data ELSE None]
    IN  IF data_source = "Sample data (demo)"
        THEN LET account == load_data(cache, extractor, data_source, SampleAccountPath)
                 credit_card ==
                     load_data(account.cache, extractor, data_source, SampleCreditCardPath)
             IN  both(account, credit_card, state)
        ELSE IF data_source = "Local files"
        THEN IF "uploaded_account_data" \notin DOMAIN state
                 /\ "uploaded_credit_card_data" \notin DOMAIN state
             THEN LET account ==
                          load_data(cache, extractor, data_source, state["account_files_path"])
                      credit_card ==
                          load_data(account.cache, extractor, data_source,
                                    state["credit_card_files_path"])
                  IN  both(account, credit_card,
                           set_item(set_item(state, "uploaded_account_data", account.value),
                                    "uploaded_credit_card_data", credit_card.value))
             ELSE [account |-> state["uploaded_account_data"],
                   credit_card |-> state["uploaded_credit_card_data"],
                   state |-> state, cache |-> cache, self_data |-> None]
        ELSE IF "account" \notin DOMAIN state \/ "credit_card" \notin DOMAIN state
        THEN [error |-> "KeyError", state |-> state, cache |-> cache, self_data |-> None]
        ELSE LET account == load_data(cache, extractor, data_source, state["account"])
                 credit_card ==
                     load_data(IF IsError(account) THEN cache ELSE account.cache,
                               extractor, data_source, state["credit_card"])
             IN  both(account, credit_card, state)

\* process_data_account and process_data_credit_card read the mapping from
\* session_state after process_data has run: KeyError if the key is absent.
keywords_read(state, processed_without) ==
    IF IsError(processed_without) THEN processed_without ELSE Raise("KeyError")
account_of(state, df) ==
    IF "category_keywords_json" \in DOMAIN state
    THEN process_data_account(df, state["category_keywords_json"])
    ELSE keywords_read(state, process_data_account(df, <<>>))
credit_card_of(state, df) ==
    IF "category_keywords_json" \in DOMAIN state
    THEN process_data_credit_card(df, state["category_keywords_json"])
    ELSE keywords_read(state, process_data_credit_card(df, <<>>))

\* The widgets of the sidebar as they first appear: "Filter to the previous
\* month" ticked and every option of the three multiselects selected.
sidebar_defaults(df) ==
    LET end_date == day_before_first(truncate_month(column_max(df, "date")))
    IN  [start_date |-> truncate_month(end_date), end_date |-> end_date,
         types |-> column_values(df, "type"),
         transactions |-> column_values(df, "transaction"),
         categories |-> column_values(df, "category")]

\* A script run that ends before transform_data returns: a new App whose
\* data is what load_data left there.
run_ends(state, cache, self_data, account, credit_card, exception) ==
    /\ session_state' = state
    /\ cache_data' = cache
    /\ account_data' = account
    /\ credit_card_data' = credit_card
    /\ processed_account' = None
    /\ processed_credit_card' = None
    /\ data' = self_data
    /\ filtered_data' = None
    /\ sidebar' = None
    /\ raised' = exception

\* One run of the script on the session_state given: the main block builds a
\* new App and App.run clears the cache on request, shows the dialog when no
\* data source is selected, and otherwise takes the extractor, transforms
\* the data and displays the sidebar with the filter.
run(state) ==
    \E s0 \in {IF state["refresh_data"] THEN set_item(state, "refresh_data", FALSE)
               ELSE state},
       c0 \in {IF state["refresh_data"] THEN {} ELSE cache_data} :
        IF "data_source" \notin DOMAIN s0
        THEN run_ends(s0, c0, None, None, None, None)
        ELSE IF "extractor" \notin DOMAIN s0
        THEN run_ends(s0, c0, None, None, None, Raise("AttributeError"))
        ELSE \E loaded \in {load_tables(s0, c0)} :
                IF IsError(loaded)
                THEN run_ends(loaded.state, loaded.cache, loaded.self_data,
                              None, None, Raise(loaded.error))
                ELSE \E account \in {account_of(loaded.state, loaded.account)} :
                     \E credit_card \in
                            {IF IsError(account) THEN None
                             ELSE credit_card_of(loaded.state, loaded.credit_card)} :
                        /\ session_state' = loaded.state
                        /\ cache_data' = loaded.cache
                        /\ account_data' = loaded.account
                        /\ credit_card_data' = loaded.credit_card
                        /\ processed_account' = account
                        /\ processed_credit_card' = credit_card
                        /\ IF IsFrame(account) /\ IsFrame(credit_card)
                           THEN \E df \in concat_sort_data(account, credit_card, "date") :
                                \E arguments \in {sidebar_defaults(df)} :
                                   /\ data' = df
                                   /\ sidebar' = arguments
                                   /\ filtered_data' =
                                          filter_data(df, arguments.start_date,
                                                      arguments.end_date, arguments.types,
                                                      arguments.transactions,
                                                      arguments.categories)
                                   /\ raised' = None
                           ELSE /\ data' = loaded.self_data
                                /\ sidebar' = None
                                /\ filtered_data' = None
                                /\ raised' = IF IsError(account) THEN Raise(account.error)
                                             ELSE Raise(credit_card.error)

\* An exception inside the Submit block: the keys written so far stay in
\* session_state and the script run ends without rerun().
submit_raises(state, exception) ==
    /\ session_state' = state
    /\ raised' = Raise(exception)
    /\ UNCHANGED <<account_data, credit_card_data, processed_account, processed_credit_card,
                   data, filtered_data, sidebar, cache_data>>

\* The dialog is shown by a script run that finds no data source selected.
dialog_shown == "data_source" \notin DOMAIN session_state

submit_sample ==
    /\ dialog_shown
    /\ LET s1 == set_item(session_state, "data_source", "Sample data (demo)")
           extractor == create_extractor("Sample data (demo)", s1)
       IN  run(set_item(set_item(s1, "extractor", extractor.value),
                        "category_keywords_json", <<>>))

submit_local(account_files, credit_card_files, category_keywords) ==
    /\ dialog_shown
    /\ LET s1 == set_item(session_state, "data_source", "Local files")
           extractor == create_extractor("Local files", s1)
           s2 == set_item(s1, "extractor", extractor.value)
           s3 == set_item(s2, "account_files_path", account_files)
           s4 == set_item(s3, "credit_card_files_path", credit_card_files)
           keywords == load_or(category_keywords, <<>>)
       IN  IF IsError(keywords) THEN submit_raises(s4, keywords.error)
           ELSE run(set_item(s4, "category_keywords_json", keywords.value))

submit_google_drive(gcp_credentials, account_folder_id, credit_card_folder_id, category_keywords) ==
    /\ dialog_shown
    /\ LET s1 == set_item(session_state, "data_source", "Google Drive")
           credentials == load_or(gcp_credentials, {})
           s2 == set_item(s1, "gcp_credentials_json", credentials.value)
           extractor == create_extractor("Google Drive", s2)
           s3 == set_item(s2, "extractor", extractor.value)
           s4 == set_item(s3, "account", account_folder_id)
           s5 == set_item(s4, "credit_card", credit_card_folder_id)
           keywords == load_or(category_keywords, <<>>)
       IN  IF IsError(credentials) THEN submit_raises(s1, credentials.error)
           ELSE IF IsError(extractor) THEN submit_raises(s2, extractor.error)
           ELSE IF IsError(keywords) THEN submit_raises(s5, keywords.error)
           ELSE run(set_item(s5, "category_keywords_json", keywords.value))

\* The two buttons exist once display_sidebar has drawn them; a click runs
\* the callback and then the script.
handle_change_data_source ==
    /\ sidebar # None
    /\ run(del_item(session_state, "data_source"))

handle_refresh_data ==
    /\ sidebar # None
    /\ run(set_item(session_state, "refresh_data", TRUE))

\* Any other rerun of the script.
rerun_script ==
    /\ "refresh_data" \in DOMAIN session_state
    /\ run(session_state)

InitApp ==
    /\ session_state = ("refresh_data" :> FALSE)
    /\ cache_data = {}
    /\ account_data = None
    /\ credit_card_data = None
    /\ processed_account = None
    /\ processed_credit_card = None
    /\ data = None
    /\ filtered_data = None
    /\ sidebar = None
    /\ raised = None

NextApp ==
    \/ submit_sample
    \/ \E account_files \in AccountUploads, credit_card_files \in CreditCardUploads,
          category_keywords \in KeywordUploads :
          submit_local(account_files, credit_card_files, category_keywords)
    \/ \E gcp_credentials \in CredentialUploads, category_keywords \in KeywordUploads :
          submit_google_drive(gcp_credentials, AccountFolderId, CreditCardFolderId,
                              category_keywords)
    \/ handle_change_data_source
    \/ handle_refresh_data
    \/ rerun_script

SpecApp == InitApp /\ [][NextApp]_vars

(***************************************************************************)
(* Properties of the session (checked under SpecApp).                      *)
(***************************************************************************)
HasKey(key) == key \in DOMAIN session_state

\* C15: a malformed keyword mapping, such as one whose category has a string
\* for value instead of a list, is refused when the file is loaded: it is
\* never stored under "category_keywords_json" and no feed is ever
\* categorized with it.
C15_MalformedMappingRejected ==
    HasKey("category_keywords_json") =>
        /\ category_keywords_json # MalformedKeywords
        /\ category_keywords_json \in {<<>>, WellFormedKeywords}

\* C18: whenever session_state holds "data_source" it holds "extractor" and
\* "category_keywords_json" as well, the extractor is the one of that data
\* source, and no script run ends on a key that is missing from
\* session_state.
C18_SessionKeysComplete ==
    HasKey("data_source") =>
        /\ HasKey("extractor")
        /\ HasKey("category_keywords_json")
        /\ session_state["extractor"] =
               (IF session_state["data_source"] = "Google Drive"
                THEN "GoogleDriveExtractor" ELSE "LocalFileExtractor")
        /\ raised \notin {Raise("AttributeError"), Raise("KeyError")}

\* C19: a script run on the "Local files" source transforms the files of
\* the last Submit: the two raw tables transform_data works on are the ones
\* that Submit stored under "account_files_path" and
\* "credit_card_files_path".
C19_LocalRunUsesSubmittedFiles ==
    (HasKey("data_source") /\ processed_account # None)
        => (session_state["data_source"] = "Local files"
               => /\ account_data = session_state["account_files_path"]
                  /\ credit_card_data = session_state["credit_card_files_path"])
====
